---- MODULE Spec2Model ----
(***************************************************************************)
(* A model of inseq's AttributionModel (src/inseq/models/                  *)
(* attribution_model.py): the model's fields, setup(), and the             *)
(* orchestration method attribute(), one atomic action per call.           *)
(* Collaborators that are not part of the file (format_input_texts,        *)
(* check_device, FeatureAttribution.load / prepare_and_attribute,          *)
(* FeatureAttributionOutput.merge_attributions, STEP_SCORES_MAP) are       *)
(* modelled from the specification.                                        *)
(***************************************************************************)
EXTENDS Integers, Sequences, FiniteSets, TLC

VARIABLES
    has_model,                 \* self.model is set (truthy)
    is_encoder_decoder,        \* self.is_encoder_decoder
    device,                    \* self._device, an Optional
    attribution_method,        \* self.attribution_method, an Optional method name
    default_attributed_fn_id,  \* self._default_attributed_fn_id
    is_hooked,                 \* self.is_hooked: a loaded method has its hooks on the model
    default_generation_args,   \* the dict object of the function attribute() that is the
                               \* default of generation_args (line 170), one for all objects
    pc,                        \* the caller: "idle" or "returned"
    last                       \* the record of the call that has just returned

vars == <<has_model, is_encoder_decoder, device, attribution_method, is_hooked,
          default_attributed_fn_id, default_generation_args, pc, last>>

\* ---------------------------------------------------------------- bounds
MaxN == 2          \* most examples in one call
MaxBatchSize == 2  \* largest requested batch size

\* ---------------------------------------------------------------- values
None == <<>>
Some(x) == <<x>>
Optional(S) == {None} \cup {Some(x) : x \in S}
IsNone(o) == o = None
The(o) == o[1]

\* Texts are sequences of characters; "a" and "ab".
Ta == <<"a">>
Tab == <<"a", "b">>
Texts == {Ta, Tab}
EmptyText == <<>>

\* A text argument: None, a single str, or a list of str.
NoTexts == [kind |-> "none", v |-> <<>>]
StrArg(t) == [kind |-> "str", v |-> <<t>>]
ListArg(s) == [kind |-> "list", v |-> s]

SeqsUpTo(S, n) == UNION {[1..k -> S] : k \in 0..n}

ValidDevices == {"cpu", "cuda"}
InvalidDevices == {"tpu?"}
MethodNames == {"saliency", "lime"}
StepScoresMap == {"probability", "entropy"}
UnregisteredFns == {"bogus"}
CallableFn == "<callable>"
\* A dict of keyword arguments is a set of <<key, value>> pairs.
Keys(d) == {p[1] : p \in d}
Get(d, k) == IF k \in Keys(d) THEN Some((CHOOSE p \in d : p[1] = k)[2]) ELSE None
Put(d, k, v) == {p \in d : p[1] # k} \cup {<<k, v>>}
GenerationKwargs == {<<"max_length", "n">>}

\* ---------------------------------------------------------------- helpers
\* bool(x) of a text argument: an empty str and an empty list are falsy.
Truthy(t) ==
    CASE t.kind = "none" -> FALSE
      [] t.kind = "str" -> t.v[1] # EmptyText
      [] OTHER -> Len(t.v) > 0

\* str.startswith
startswith(t, p) == Len(p) <= Len(t) /\ SubSeq(t, 1, Len(p)) = p

\* check_device: accepts a known device identifier.
check_device(d) == d \in ValidDevices

\* The device setter: validate, then record. d is a device name.
set_device(cur, d) ==
    IF check_device(d) THEN [ok |-> TRUE, device |-> Some(d)]
    ELSE [ok |-> FALSE, device |-> cur]

\* format_input_texts: a str becomes a one-element list; lengths must match.
format_input_texts(texts, ref) ==
    LET t == texts.v
        r == ref.v
    IN IF ref.kind # "none" /\ Len(t) # Len(r)
       THEN [ok |-> FALSE, texts |-> ListArg(t), ref |-> ref]
       ELSE [ok |-> TRUE, texts |-> ListArg(t),
             ref |-> IF ref.kind = "none" THEN NoTexts ELSE ListArg(r)]

\* ---------------------------------------------------------------- method and function resolution
\* AttributionModel.get_attribution_method. cur is the bound method (Optional),
\* method the requested name (Optional). The result carries the events
\* (unhook, load), the method bound afterwards and the method returned.
GetAttributionMethodLoadsDefault(cur, method, override) ==
    IF IsNone(method)
    THEN [ok |-> TRUE, ev |-> <<<<"load", "saliency">>>>,
          attribution_method |-> Some("saliency"), used |-> Some("saliency")]
    ELSE [ok |-> TRUE, ev |-> <<<<"load", The(method)>>>>,
          attribution_method |-> method, used |-> method]
\* is_hooked after the events of a resolution: unhook() releases the model,
\* loading a method hooks it to the model.
HookedAfter(h, ev) ==
    LET K == {i \in 1..Len(ev) : ev[i][1] \in {"unhook", "load"}}
    IN IF K = {} THEN h
       ELSE ev[CHOOSE i \in K : \A j \in K : j <= i][1] = "load"

GetAttributionMethodNoUnhook(cur, method, override) ==
    IF IsNone(method)
    THEN IF IsNone(cur)
         THEN [ok |-> FALSE, ev |-> <<>>, attribution_method |-> cur, used |-> None]
         ELSE [ok |-> TRUE, ev |-> <<>>, attribution_method |-> cur, used |-> cur]
    ELSE [ok |-> TRUE, ev |-> <<<<"load", The(method)>>>>,
          attribution_method |-> IF override \/ IsNone(cur) THEN method ELSE cur,
          used |-> method]
GetAttributionMethodAlwaysRebinds(cur, method, override) ==
    IF IsNone(method)
    THEN IF IsNone(cur)
         THEN [ok |-> FALSE, ev |-> <<>>, attribution_method |-> cur, used |-> None]
         ELSE [ok |-> TRUE, ev |-> <<>>, attribution_method |-> cur, used |-> cur]
    ELSE [ok |-> TRUE,
          ev |-> (IF IsNone(cur) THEN <<>> ELSE <<<<"unhook", The(cur)>>>>)
                    \o <<<<"load", The(method)>>>>,
          attribution_method |-> method, used |-> method]
get_attribution_method(cur, method, override) ==
    IF IsNone(method)
    THEN IF IsNone(cur)
         THEN [ok |-> FALSE, ev |-> <<>>, attribution_method |-> cur, used |-> None]
         ELSE [ok |-> TRUE, ev |-> <<>>, attribution_method |-> cur, used |-> cur]
    ELSE LET unhook == IF IsNone(cur) THEN <<>> ELSE <<<<"unhook", The(cur)>>>>
             load == <<<<"load", The(method)>>>>
         IN IF override \/ IsNone(cur)
            THEN [ok |-> TRUE, ev |-> unhook \o load,
                  attribution_method |-> method, used |-> method]
            ELSE [ok |-> TRUE, ev |-> unhook \o load,
                  attribution_method |-> cur, used |-> method]

\* An attributed-function selector: absent, a string key, or a callable.
NoFn == [kind |-> "none", id |-> ""]
FnKey(k) == [kind |-> "str", id |-> k]
FnCallable == [kind |-> "callable", id |-> CallableFn]
\* STEP_SCORES_MAP[k]: the function registered under k.
StepFn(k) == [kind |-> "step_fn", id |-> k]

\* lines 104-108: the setter function, which validates before it assigns.
set_attributed_fn(cur, fn) ==
    IF fn \notin StepScoresMap
    THEN [status |-> "UnknownFunctionError", default_attributed_fn_id |-> cur]
    ELSE [status |-> "ok", default_attributed_fn_id |-> fn]

\* The two properties that lines 100-108 put on the class. The getter is
\* bound to the name default_attributed_fn_id; `@default_attributed_fn_id.setter`
\* makes a copy of that property with the setter added, and the class binds
\* the copy to the name of the decorated function, set_attributed_fn. An
\* assignment to default_attributed_fn_id finds a property with no setter.
PropertyNames == {"default_attributed_fn_id", "set_attributed_fn"}
setattr(cur, name, value) ==
    IF name = "set_attributed_fn" THEN set_attributed_fn(cur, value)
    ELSE [status |-> "AttributeError", default_attributed_fn_id |-> cur]

\* AttributionModel.get_attributed_fn.
GetAttributedFnFallsBack(fn, default_id) ==
    IF fn.kind = "callable" THEN [ok |-> TRUE, fn |-> fn]
    ELSE IF fn.kind = "str" /\ fn.id \in StepScoresMap THEN [ok |-> TRUE, fn |-> StepFn(fn.id)]
    ELSE [ok |-> TRUE, fn |-> StepFn(default_id)]
get_attributed_fn(fn, default_id) ==
    LET f == IF fn.kind = "none" THEN FnKey(default_id) ELSE fn
    IN IF f.kind = "str"
       THEN IF f.id \notin StepScoresMap
            THEN [ok |-> FALSE, fn |-> f]
            ELSE [ok |-> TRUE, fn |-> StepFn(f.id)]
       ELSE [ok |-> TRUE, fn |-> f]

\* ---------------------------------------------------------------- attribute(), step by step
\* The arguments of one attribute() call.
\*   input_texts, generated_texts : text arguments
\*   method, device, batch_size, attr_pos_start, attr_pos_end : Optionals
\*   override_default_attribution, attribute_target, generate_from_target_prefix : booleans
\*   attributed_fn : a selector;  generation_args : None (the default dict) or Some(dict)
\* The collaborators' behaviour in one call (the abstract methods and plugins):
\*   generate : a function of Texts, the text generated for each input text
\*   fault : the collaborator that fails in this call, "generate", "dispatch" or "none"

Raise(c, err) == [c EXCEPT !.status = err]
Log(c, kind, detail) == [c EXCEPT !.ev = Append(@, <<kind, detail>>)]
Running(c) == c.status = "running"

\* The frame of a call when it starts: the model's fields m, the arguments a.
Frame(m, a) ==
    [status |-> "running",
     ev |-> <<>>,
     device |-> m.device,
     attribution_method |-> m.attribution_method,
     is_hooked |-> m.is_hooked,
     default_generation_args |-> m.default_generation_args,
     original_device |-> None,
     input_texts |-> a.input_texts,
     generated_texts |-> a.generated_texts,
     attribute_target |-> a.attribute_target,
     generate_from_target_prefix |-> a.generate_from_target_prefix,
     generation_args |-> IF IsNone(a.generation_args) THEN m.default_generation_args
                         ELSE The(a.generation_args),
     has_generated_texts |-> FALSE,
     generate_calls |-> <<>>,
     used_method |-> None,
     attributed_fn |-> NoFn,
     batch_size |-> a.batch_size,
     n_batches |-> None,
     dispatch |-> None,
     out |-> None]

\* lines 228-229: an empty input collection is rejected first.
CheckEmptyListOnly(c) ==
    IF c.input_texts.kind = "list" /\ Len(c.input_texts.v) = 0
    THEN Raise(c, "EmptyInputError") ELSE c
CheckEmpty(c) ==
    IF ~Truthy(c.input_texts) THEN Raise(c, "EmptyInputError") ELSE c

\* lines 230-237: encoder-decoder-only flags are switched off with a warning.
ArchFlagsKeepsPrefix(m, c) ==
    IF c.attribute_target /\ ~m.is_encoder_decoder
    THEN [Log(c, "warning", "attribute_target") EXCEPT !.attribute_target = FALSE]
    ELSE c
ArchFlags(m, c) ==
    LET c1 == IF c.attribute_target /\ ~m.is_encoder_decoder
              THEN [Log(c, "warning", "attribute_target") EXCEPT !.attribute_target = FALSE]
              ELSE c
    IN IF c1.generate_from_target_prefix /\ ~m.is_encoder_decoder
       THEN [Log(c1, "warning", "generate_from_target_prefix")
                EXCEPT !.generate_from_target_prefix = FALSE]
       ELSE c1

\* lines 238-240: remember the device, then apply the override.
OverrideDevice(a, c) ==
    LET c1 == [c EXCEPT !.original_device = c.device]
    IN IF IsNone(a.device) THEN c1
       ELSE LET r == set_device(c1.device, The(a.device))
            IN IF r.ok THEN [Log(c1, "set_device", The(a.device)) EXCEPT !.device = r.device]
               ELSE Raise(c1, "DeviceError")

\* line 241: normalise the text arguments.
NormalizeTextsNoCheck(c) ==
    [c EXCEPT !.input_texts = ListArg(c.input_texts.v),
              !.generated_texts = IF c.generated_texts.kind = "none" THEN NoTexts
                                  ELSE ListArg(c.generated_texts.v)]
NormalizeTexts(c) ==
    LET r == format_input_texts(c.input_texts, c.generated_texts)
    IN IF r.ok THEN [c EXCEPT !.input_texts = r.texts, !.generated_texts = r.ref]
       ELSE Raise(c, "LengthMismatchError")

\* lines 242-244: the number of batches that is logged.
CountBatches(c) ==
    IF IsNone(c.batch_size) THEN c
    ELSE LET n == Len(c.input_texts.v)
             b == The(c.batch_size)
         IN [c EXCEPT !.n_batches = Some((n \div b) + (IF n % b > 0 THEN 1 ELSE 0))]

\* lines 245-258: generate the targets, or take the supplied ones.
GenerationWithoutPrefix(a, e, c) ==
    LET c1 == [c EXCEPT !.has_generated_texts = (c.generated_texts.kind # "none")]
    IN IF ~c1.has_generated_texts
       THEN LET c2 == Log(c1, "encode", "input_texts")
                c3 == IF c2.generate_from_target_prefix
                      THEN [Log(c2, "encode", "generated_texts") EXCEPT
                              !.generation_args =
                                  Put(@, "decoder_input_ids", c2.generated_texts.v),
                              !.default_generation_args =
                                  IF IsNone(a.generation_args)
                                  THEN Put(@, "decoder_input_ids", c2.generated_texts.v)
                                  ELSE @]
                      ELSE c2
                call == [kwargs |-> c3.generation_args,
                         decoder_input_ids |-> Get(c3.generation_args, "decoder_input_ids")]
                c4 == [Log(c3, "generate", "") EXCEPT !.generate_calls = Append(@, call)]
            IN IF e.fault # "generate"
               THEN [c4 EXCEPT !.generated_texts =
                        ListArg([i \in 1..Len(c4.input_texts.v) |-> e.generate[c4.input_texts.v[i]]])]
               ELSE Raise(c4, "GenerationError")
       ELSE IF c1.generation_args # {}
            THEN Log(c1, "warning", "generation_args")
            ELSE c1
Generation(a, e, c) ==
    LET c1 == [c EXCEPT !.has_generated_texts = (c.generated_texts.kind # "none")]
    IN IF ~c1.has_generated_texts \/ c1.generate_from_target_prefix
       THEN LET c2 == Log(c1, "encode", "input_texts")
                c3 == IF c2.generate_from_target_prefix
                      THEN [Log(c2, "encode", "generated_texts") EXCEPT
                              !.generation_args =
                                  Put(@, "decoder_input_ids", c2.generated_texts.v),
                              !.default_generation_args =
                                  IF IsNone(a.generation_args)
                                  THEN Put(@, "decoder_input_ids", c2.generated_texts.v)
                                  ELSE @]
                      ELSE c2
                call == [kwargs |-> c3.generation_args,
                         decoder_input_ids |-> Get(c3.generation_args, "decoder_input_ids")]
                c4 == [Log(c3, "generate", "") EXCEPT !.generate_calls = Append(@, call)]
            IN IF e.fault # "generate"
               THEN [c4 EXCEPT !.generated_texts =
                        ListArg([i \in 1..Len(c4.input_texts.v) |-> e.generate[c4.input_texts.v[i]]])]
               ELSE Raise(c4, "GenerationError")
       ELSE IF c1.generation_args # {}
            THEN Log(c1, "warning", "generation_args")
            ELSE c1

\* line 259: resolve the attribution method.
ResolveMethod(a, c) ==
    LET r == get_attribution_method(c.attribution_method, a.method, a.override_default_attribution)
        c1 == [c EXCEPT !.ev = @ \o r.ev, !.attribution_method = r.attribution_method,
                        !.is_hooked = HookedAfter(@, r.ev), !.used_method = r.used]
    IN IF r.ok THEN c1 ELSE Raise(c1, "MissingAttributionMethodError")

\* line 260: resolve the attributed function.
ResolveFn(m, a, c) ==
    LET r == get_attributed_fn(a.attributed_fn, m.default_attributed_fn_id)
    IN IF r.ok THEN [c EXCEPT !.attributed_fn = r.fn]
       ELSE Raise([c EXCEPT !.attributed_fn = r.fn], "UnknownFunctionError")

\* lines 267-270: on a decoder-only model every target starts with its input.
PrefixCheckAny(m, c) ==
    IF ~m.is_encoder_decoder
       /\ ~(\E i \in 1..Len(c.input_texts.v) :
              startswith(c.generated_texts.v[i], c.input_texts.v[i]))
    THEN Raise(c, "AssertionError") ELSE c
PrefixCheck(m, c) ==
    IF ~m.is_encoder_decoder
       /\ ~(\A i \in 1..Len(c.input_texts.v) :
              startswith(c.generated_texts.v[i], c.input_texts.v[i]))
    THEN Raise(c, "AssertionError") ELSE c

\* lines 271-285: the configurations in which the batch size is forced to 1.
BatchingKeepsLime(m, a, c) ==
    IF ~m.is_encoder_decoder /\ Len(c.input_texts.v) > 1
       /\ (c.has_generated_texts \/ ~IsNone(a.attr_pos_start) \/ ~IsNone(a.attr_pos_end))
    THEN [Log(c, "info", "batch size of 1") EXCEPT !.batch_size = Some(1)]
    ELSE c
Batching(m, a, c) ==
    LET c1 == IF ~m.is_encoder_decoder /\ c.has_generated_texts /\ Len(c.input_texts.v) > 1
              THEN [Log(c, "info", "constrained decoding: batch size of 1")
                       EXCEPT !.batch_size = Some(1)]
              ELSE c
        c2 == IF ~m.is_encoder_decoder /\ Len(c1.input_texts.v) > 1
                 /\ (~IsNone(a.attr_pos_start) \/ ~IsNone(a.attr_pos_end))
              THEN [Log(c1, "info", "attribution positions: batch size of 1")
                       EXCEPT !.batch_size = Some(1)]
              ELSE c1
    IN IF c2.used_method = Some("lime")
       THEN [Log(c2, "info", "lime: batch size of 1") EXCEPT !.batch_size = Some(1)]
       ELSE c2

\* lines 286-302: the arguments handed to prepare_and_attribute.
DispatchArgsReversed(a, c) ==
    [method |-> The(c.used_method),
     input_texts |-> [i \in 1..Len(c.input_texts.v) |->
                         c.input_texts.v[Len(c.input_texts.v) + 1 - i]],
     generated_texts |-> c.generated_texts.v,
     batch_size |-> c.batch_size,
     attr_pos_start |-> a.attr_pos_start,
     attr_pos_end |-> a.attr_pos_end,
     attribute_target |-> c.attribute_target,
     attributed_fn |-> c.attributed_fn]
DispatchArgs(a, c) ==
    [method |-> The(c.used_method),
     input_texts |-> c.input_texts.v,
     generated_texts |-> c.generated_texts.v,
     batch_size |-> c.batch_size,
     attr_pos_start |-> a.attr_pos_start,
     attr_pos_end |-> a.attr_pos_end,
     attribute_target |-> c.attribute_target,
     attributed_fn |-> c.attributed_fn]

\* FeatureAttribution.prepare_and_attribute: the examples are taken batch by
\* batch, in order; one output per batch.
prepare_and_attribute(d) ==
    LET n == Len(d.input_texts)
        bs == IF IsNone(d.batch_size) THEN n ELSE The(d.batch_size)
        nb == (n \div bs) + (IF n % bs > 0 THEN 1 ELSE 0)
        size(b) == IF b * bs <= n THEN bs ELSE n - (b - 1) * bs
    IN [b \in 1..nb |->
          [examples |-> [k \in 1..size(b) |->
                           [source |-> d.input_texts[(b - 1) * bs + k],
                            target |-> d.generated_texts[(b - 1) * bs + k],
                            batch |-> b]],
           info |-> [attribution_method |-> d.method,
                     attribute_target |-> d.attribute_target]]]

\* FeatureAttributionOutput.merge_attributions: the batches' examples
\* concatenated in batch order, under the first batch's metadata.
RECURSIVE Concat(_)
Concat(outs) ==
    IF Len(outs) = 0 THEN <<>> ELSE outs[1].examples \o Concat(Tail(outs))
merge_attributions(outs) ==
    [sequence_attributions |-> Concat(outs), info |-> outs[1].info]

\* lines 286-310: dispatch, merge, and attach the run's metadata.
DispatchAndMergeFlagsSwapped(a, e, c) ==
    LET d == DispatchArgs(a, c)
        c1 == [Log(c, "dispatch", d.method) EXCEPT !.dispatch = Some(d)]
        merged == merge_attributions(prepare_and_attribute(d))
    IN IF e.fault = "dispatch" THEN Raise(c1, "DispatchError")
       ELSE [c1 EXCEPT !.out = Some(
               [sequence_attributions |-> merged.sequence_attributions,
                info |-> [attribution_method |-> merged.info.attribution_method,
                          attribute_target |-> merged.info.attribute_target,
                          input_texts |-> c1.input_texts,
                          generated_texts |->
                              IF c1.generated_texts.kind = "str"
                              THEN ListArg(<<c1.generated_texts.v[1]>>) ELSE c1.generated_texts,
                          generation_args |-> c1.generation_args,
                          constrained_decoding |-> c1.generate_from_target_prefix,
                          generate_from_target_prefix |-> c1.has_generated_texts]])]
DispatchAndMerge(a, e, c) ==
    LET d == DispatchArgs(a, c)
        c1 == [Log(c, "dispatch", d.method) EXCEPT !.dispatch = Some(d)]
        merged == merge_attributions(prepare_and_attribute(d))
    IN IF e.fault = "dispatch" THEN Raise(c1, "DispatchError")
       ELSE [c1 EXCEPT !.out = Some(
               [sequence_attributions |-> merged.sequence_attributions,
                info |-> [attribution_method |-> merged.info.attribution_method,
                          attribute_target |-> merged.info.attribute_target,
                          input_texts |-> c1.input_texts,
                          generated_texts |->
                              IF c1.generated_texts.kind = "str"
                              THEN ListArg(<<c1.generated_texts.v[1]>>) ELSE c1.generated_texts,
                          generation_args |-> c1.generation_args,
                          constrained_decoding |-> c1.has_generated_texts,
                          generate_from_target_prefix |-> c1.generate_from_target_prefix]])]

\* lines 311-313: put the device back and return.
RestoreAndReturn(a, c) ==
    LET c1 == IF ~IsNone(a.device) /\ ~IsNone(c.original_device)
              THEN [Log(c, "set_device", The(c.original_device))
                       EXCEPT !.device = set_device(c.device, The(c.original_device)).device]
              ELSE c
    IN [c1 EXCEPT !.status = "ok"]

\* A step runs only while no earlier step has raised.
Then(c, next) == IF Running(c) THEN next ELSE c

\* AttributionModel.attribute: the whole call, from the model's fields m, the
\* arguments a and the collaborators' behaviour e to the frame it ends in.
\* (Each step's frame is computed once and handed to the next step.)
attribute(m, a, e) ==
    LET s1 == {CheckEmpty(Frame(m, a))}
        s2 == {Then(c, ArchFlags(m, c)) : c \in s1}
        s3 == {Then(c, OverrideDevice(a, c)) : c \in s2}
        s4 == {Then(c, NormalizeTexts(c)) : c \in s3}
        s5 == {Then(c, CountBatches(c)) : c \in s4}
        s6 == {Then(c, Generation(a, e, c)) : c \in s5}
        s7 == {Then(c, ResolveMethod(a, c)) : c \in s6}
        s8 == {Then(c, ResolveFn(m, a, c)) : c \in s7}
        s9 == {Then(c, PrefixCheck(m, c)) : c \in s8}
        s10 == {Then(c, Batching(m, a, c)) : c \in s9}
        s11 == {Then(c, DispatchAndMerge(a, e, c)) : c \in s10}
        s12 == {Then(c, RestoreAndReturn(a, c)) : c \in s11}
    IN CHOOSE c \in s12 : TRUE

\* ---------------------------------------------------------------- the calls that are made
InputArgs ==
    {StrArg(t) : t \in Texts \cup {EmptyText}} \cup {ListArg(s) : s \in SeqsUpTo(Texts, MaxN)}
\* Targets, when passed, are a str or a non-empty list.
TargetArgs ==
    {NoTexts} \cup {StrArg(t) : t \in Texts}
        \cup {ListArg(s) : s \in SeqsUpTo(Texts, MaxN) \ {<<>>}}
BatchSizes == Optional(1..MaxBatchSize)
AttributedFns == {NoFn, FnCallable} \cup {FnKey(k) : k \in {"probability"} \cup UnregisteredFns}
DeviceArgs == Optional({"cuda"} \cup InvalidDevices)
GenerationArgs == {None, Some({}), Some(GenerationKwargs)}

Args(I, G, M, O, PS, PE, AT, F, D, B, P, GA) ==
    [input_texts : I, generated_texts : G, method : M, override_default_attribution : O,
     attr_pos_start : PS, attr_pos_end : PE, attribute_target : AT, attributed_fn : F,
     device : D, batch_size : B, generate_from_target_prefix : P, generation_args : GA]

\* attribute()'s defaults, for one input text.
DefaultArgs ==
    [input_texts |-> StrArg(Ta), generated_texts |-> NoTexts, method |-> None,
     override_default_attribution |-> FALSE, attr_pos_start |-> None, attr_pos_end |-> None,
     attribute_target |-> FALSE, attributed_fn |-> NoFn, device |-> None,
     batch_size |-> None, generate_from_target_prefix |-> FALSE, generation_args |-> None]

\* Targets that start with every input text, one per example.
FullTargets == {NoTexts} \cup {ListArg([i \in 1..k |-> Tab]) : k \in 1..MaxN}
FewInputs == {StrArg(EmptyText), ListArg(<<>>), StrArg(Ta), ListArg(<<Ta, Tab>>)}
FewTargets == {NoTexts, StrArg(Tab), ListArg(<<Tab, Tab>>)}

\* The calls explored: every text and batch-size combination under the
\* default flags; every batching condition on inputs of each length; every
\* method, function and device selection, and every flag combination, on a
\* few texts.
TextCalls ==
    Args(InputArgs, TargetArgs, {None}, {FALSE}, {None}, {None}, {FALSE}, {NoFn},
         {None}, BatchSizes, {FALSE}, {None})
BatchCalls ==
    Args({ListArg([i \in 1..k |-> Ta]) : k \in 1..MaxN}, FullTargets,
         Optional(MethodNames), {FALSE}, Optional({0}), Optional({1}), {FALSE}, {NoFn},
         {None}, BatchSizes, {FALSE}, {None})
ResolutionCalls ==
    Args(FewInputs, {NoTexts, StrArg(Tab)}, Optional(MethodNames), {FALSE}, {None}, {None},
         {FALSE}, AttributedFns, DeviceArgs, {None}, {FALSE}, {None})
OverrideCalls ==
    Args({StrArg(Ta)}, {NoTexts, StrArg(Tab)}, Optional(MethodNames), BOOLEAN, {None}, {None},
         {FALSE}, {NoFn}, {None}, {None}, {FALSE}, {None})
FlagCalls ==
    Args({i \in FewInputs : Truthy(i)}, FewTargets, {None}, {FALSE}, {None}, {None},
         BOOLEAN, {NoFn}, {None}, {None}, BOOLEAN, GenerationArgs)
\* generate_from_target_prefix is documented as a way to use generated_texts:
\* calls that set it pass targets. The prefix calls that rely on the default
\* generation_args pass one target; those with more pass their own dict.
ArgSpace ==
    {a \in TextCalls \cup BatchCalls \cup ResolutionCalls \cup OverrideCalls \cup FlagCalls :
        /\ a.generate_from_target_prefix => a.generated_texts.kind # "none"
        /\ (a.generate_from_target_prefix /\ IsNone(a.generation_args))
              => a.generated_texts.kind = "str"}
\* The collaborators' behaviours: at most one of them fails in a call, and the
\* generated texts matter only to a call that generates.
\* generate either continues every input with nothing (each target is its
\* input) or answers "ab" to "a" and "a" to anything else.
Echo == [t \in Texts |-> t]
Swap == [t \in Texts |-> IF t = Ta THEN Tab ELSE Ta]
EnvSpace ==
    [generate : {Echo, Swap}, fault : {"none", "dispatch"}]
        \cup {[generate |-> Echo, fault |-> "generate"]}
EnvFor(a) ==
    IF a.generated_texts.kind = "none" \/ a.generate_from_target_prefix
    THEN EnvSpace
    ELSE {e \in EnvSpace : e.generate = Echo /\ e.fault # "generate"}

\* ---------------------------------------------------------------- the state machine
ModelState ==
    [has_model |-> has_model, is_encoder_decoder |-> is_encoder_decoder, device |-> device,
     attribution_method |-> attribution_method, is_hooked |-> is_hooked,
     default_attributed_fn_id |-> default_attributed_fn_id,
     default_generation_args |-> default_generation_args]

\* __init__ (lines 68-79) of a model with no wrapped network.
BareModel ==
    [has_model |-> FALSE, is_encoder_decoder |-> TRUE, device |-> None,
     attribution_method |-> None, is_hooked |-> FALSE,
     default_attributed_fn_id |-> "probability",
     default_generation_args |-> {}]
NoEnv == [generate |-> Echo, fault |-> "none"]
NoCall ==
    [op |-> "none", a |-> DefaultArgs, e |-> NoEnv, pre |-> BareModel,
     res |-> Frame(BareModel, DefaultArgs)]

\* lines 68-79; a subclass sets model and is_encoder_decoder before __init__.
Init ==
    /\ has_model \in BOOLEAN
    /\ is_encoder_decoder \in (IF has_model THEN BOOLEAN ELSE {TRUE})
    /\ device = None
    /\ attribution_method = None
    /\ is_hooked = FALSE
    /\ default_attributed_fn_id = "probability"
    /\ default_generation_args = {}
    /\ pc = "idle"
    /\ last = NoCall

\* AttributionModel.setup (lines 92-98), as a frame like attribute()'s.
setup(m, dev, method, default_device) ==
    LET c0 == Frame(m, [DefaultArgs EXCEPT !.device = dev, !.method = method])
        target == IF ~IsNone(dev) THEN The(dev) ELSE default_device
        r == set_device(m.device, target)
        c1 == IF r.ok THEN [Log(c0, "set_device", target) EXCEPT !.device = r.device]
              ELSE Raise(c0, "DeviceError")
        g == get_attribution_method(m.attribution_method, method, FALSE)
        c2 == [c1 EXCEPT !.ev = @ \o g.ev, !.used_method = g.used,
                         !.is_hooked = HookedAfter(@, g.ev),
                         !.attribution_method = IF g.ok THEN g.used ELSE @]
    IN IF ~Running(c1) THEN c1
       ELSE IF ~m.has_model THEN [c1 EXCEPT !.status = "ok"]
       ELSE IF g.ok THEN [c2 EXCEPT !.status = "ok"]
       ELSE Raise(c2, "MissingAttributionMethodError")

Setup(dev, method, default_device) ==
    /\ pc = "idle"
    /\ \E r \in {setup(ModelState, dev, method, default_device)} :
          /\ device' = r.device
          /\ attribution_method' = r.attribution_method
          /\ is_hooked' = r.is_hooked
          /\ last' = [op |-> "setup",
                      a |-> [DefaultArgs EXCEPT !.device = dev, !.method = method],
                      e |-> NoEnv, pre |-> ModelState, res |-> r]
    /\ pc' = "returned"
    /\ UNCHANGED <<has_model, is_encoder_decoder, default_attributed_fn_id,
                   default_generation_args>>

\* AttributionModel.attribute (lines 152-313): one call, start to finish.
Attribute(a, e) ==
    /\ pc = "idle"
    /\ \E r \in {attribute(ModelState, a, e)} :
          /\ device' = r.device
          /\ attribution_method' = r.attribution_method
          /\ is_hooked' = r.is_hooked
          /\ default_generation_args' = r.default_generation_args
          /\ last' = [op |-> "attribute", a |-> a, e |-> e, pre |-> ModelState, res |-> r]
    /\ pc' = "returned"
    /\ UNCHANGED <<has_model, is_encoder_decoder, default_attributed_fn_id>>

\* attribute() called on another AttributionModel of the process: an
\* encoder-decoder model with nothing bound. The default dict of
\* generation_args belongs to the function (line 170), so what that call
\* writes into it (line 251) is what this model's next call finds there.
OtherModel == [BareModel EXCEPT !.default_generation_args = default_generation_args]
OtherCalls ==
    {a \in ArgSpace : /\ a.generate_from_target_prefix /\ IsNone(a.generation_args)
                      /\ ~a.attribute_target}
AttributeOther(a) ==
    /\ pc = "idle"
    /\ \E r \in {attribute(OtherModel, a, NoEnv)} :
          /\ default_generation_args' = r.default_generation_args
          /\ last' = [op |-> "attribute_other", a |-> a, e |-> NoEnv,
                      pre |-> OtherModel, res |-> r]
    /\ pc' = "returned"
    /\ UNCHANGED <<has_model, is_encoder_decoder, device, attribution_method, is_hooked,
                   default_attributed_fn_id>>

\* model.<name> = value for the properties of lines 100-108.
SetAttr(name, value) ==
    /\ pc = "idle"
    /\ \E r \in {setattr(default_attributed_fn_id, name, value)} :
          /\ default_attributed_fn_id' = r.default_attributed_fn_id
          /\ last' = [op |-> "setattr",
                      a |-> [DefaultArgs EXCEPT !.attributed_fn = FnKey(value)],
                      e |-> NoEnv, pre |-> ModelState,
                      res |-> [Frame(ModelState, DefaultArgs) EXCEPT
                                  !.status = r.status, !.ev = <<<<"setattr", name>>>>]]
    /\ pc' = "returned"
    /\ UNCHANGED <<has_model, is_encoder_decoder, device, attribution_method, is_hooked,
                   default_generation_args>>

\* The caller takes the result (or the exception) and goes on.
Return ==
    /\ pc = "returned"
    /\ pc' = "idle"
    /\ last' = NoCall
    /\ UNCHANGED <<has_model, is_encoder_decoder, device, attribution_method, is_hooked,
                   default_attributed_fn_id, default_generation_args>>

Next ==
    \/ \E dev \in DeviceArgs, method \in Optional(MethodNames), dd \in ValidDevices :
          Setup(dev, method, dd)
    \/ \E a \in ArgSpace : \E e \in EnvFor(a) : Attribute(a, e)
    \/ \E a \in OtherCalls : AttributeOther(a)
    \/ \E name \in PropertyNames, value \in StepScoresMap \cup UnregisteredFns :
          SetAttr(name, value)
    \/ Return

Spec == Init /\ [][Next]_vars

\* ---------------------------------------------------------------- properties
\* The call that has just returned.
Returned == pc = "returned" /\ last.op = "attribute"
A == last.a
R == last.res
Pre == last.pre
HasEvent(kind) == \E i \in 1..Len(R.ev) : R.ev[i][1] = kind
Failed == R.status # "ok"
TargetsSupplied == A.generated_texts.kind # "none"
\* The errors raised before the targets are known, and before the attributed
\* function is resolved.
BeforeNormalize == {"EmptyInputError", "DeviceError"}
BeforeResolution == BeforeNormalize \cup {"LengthMismatchError", "GenerationError"}

\* C1: after an attribute() call made with a device override, the model's
\* device is its device before the call, on every exit path and for every
\* pre-call device, an unset one included.
C1_DeviceRestored ==
    (Returned /\ ~IsNone(A.device)) => device = Pre.device

\* C2: a successful call returns one example per input text, the i-th for
\* the i-th input text and its target; the examples come batch by batch, in
\* batch order, each batch a run of consecutive inputs; info["input_texts"]
\* lists the inputs in their original order.
C2_OrderPreserved ==
    (Returned /\ R.status = "ok") =>
        LET out == The(R.out)
            ex == out.sequence_attributions
            inputs == A.input_texts.v
            n == Len(inputs)
            d == The(R.dispatch)
            bs == IF IsNone(d.batch_size) THEN n ELSE The(d.batch_size)
        IN /\ Len(ex) = n
           /\ \A i \in 1..n : ex[i].source = inputs[i]
           /\ (TargetsSupplied /\ ~R.generate_from_target_prefix)
                 => \A i \in 1..n : ex[i].target = A.generated_texts.v[i]
           /\ \A i \in 1..n : ex[i].batch = ((i - 1) \div bs) + 1
           /\ \A i, j \in 1..n : i < j => ex[i].batch <= ex[j].batch
           /\ out.info.input_texts = ListArg(inputs)

\* C2's case: two different inputs with their targets, attributed in two batches.
C2_Witness ==
    /\ Returned /\ R.status = "ok" /\ TargetsSupplied
    /\ A.input_texts = ListArg(<<Tab, Ta>>)
    /\ A.generated_texts = ListArg(<<Tab, Tab>>)
    /\ The(R.dispatch).batch_size = Some(1)
    /\ Len(The(R.out).sequence_attributions) = 2
    /\ The(R.out).sequence_attributions[2].batch = 2

\* C3: a call with an empty input-text collection fails with the validation
\* error before anything else happens: no result, no event of any kind (no
\* generation, no method resolution, no dispatch), and the device, the bound
\* method and the default generation arguments are as before the call.
C3_EmptyInputRejectedFirst ==
    (Returned /\ ~Truthy(A.input_texts)) =>
        /\ R.status = "EmptyInputError"
        /\ R.out = None /\ R.dispatch = None
        /\ R.ev = <<>> /\ R.generate_calls = <<>>
        /\ device = Pre.device
        /\ attribution_method = Pre.attribution_method
        /\ default_generation_args = Pre.default_generation_args

\* C3's case: an empty list with a device override and a method name.
C3_Witness ==
    /\ Returned /\ A.input_texts = ListArg(<<>>)
    /\ ~IsNone(A.device) /\ ~IsNone(A.method)
    /\ R.status = "EmptyInputError"

\* C4: a call whose input texts and target texts differ in length fails, and
\* fails before generation, before the attribution method is resolved or
\* rebound and before any dispatch; the error is the length-mismatch error
\* in every call that passes the two checks made before normalisation (a
\* non-empty input, a valid device override).
C4_LengthMismatchRejected ==
    (Returned /\ TargetsSupplied /\ Len(A.input_texts.v) # Len(A.generated_texts.v)) =>
        /\ Failed
        /\ (R.status \notin BeforeNormalize => R.status = "LengthMismatchError")
        /\ (R.status = "EmptyInputError" => ~Truthy(A.input_texts))
        /\ (R.status = "DeviceError" => The(A.device) \notin ValidDevices)
        /\ ~HasEvent("encode") /\ ~HasEvent("generate") /\ R.generate_calls = <<>>
        /\ ~HasEvent("unhook") /\ ~HasEvent("load") /\ R.used_method = None
        /\ attribution_method = Pre.attribution_method
        /\ ~HasEvent("dispatch") /\ R.dispatch = None /\ R.out = None

\* C4's case: two inputs and one target, with a method name and a bound method.
C4_Witness ==
    /\ Returned /\ R.status = "LengthMismatchError"
    /\ Len(A.input_texts.v) = 2 /\ Len(A.generated_texts.v) = 1
    /\ ~IsNone(A.method) /\ ~IsNone(Pre.attribution_method)

\* C5: a call with an unregistered attributed-function key fails and never
\* dispatches; once the call gets as far as resolving the function the error
\* is the unknown-function error carrying that key, never a fallback to the
\* default. A callable reaches the attribution method unchanged, and the
\* default function is used only for an absent selector or the default's own key.
C5_UnknownFnRejected ==
    /\ (Returned /\ A.attributed_fn.kind = "str" /\ A.attributed_fn.id \notin StepScoresMap) =>
          /\ Failed /\ R.dispatch = None /\ R.out = None /\ ~HasEvent("dispatch")
          /\ (R.status \notin BeforeResolution \cup {"MissingAttributionMethodError"}
                => R.status = "UnknownFunctionError" /\ R.attributed_fn = A.attributed_fn)
    /\ (Returned /\ ~IsNone(R.dispatch)) =>
          /\ (A.attributed_fn.kind = "callable" => The(R.dispatch).attributed_fn = A.attributed_fn)
          /\ (A.attributed_fn.kind = "none"
                => The(R.dispatch).attributed_fn = StepFn(Pre.default_attributed_fn_id))
          /\ (A.attributed_fn.kind = "str"
                => The(R.dispatch).attributed_fn = StepFn(A.attributed_fn.id))

\* C5's case: an unregistered key on a call that is otherwise complete.
C5_Witness ==
    /\ Returned /\ A.attributed_fn = FnKey("bogus")
    /\ R.status = "UnknownFunctionError" /\ R.attributed_fn.id = "bogus"
    /\ ~IsNone(R.used_method)

\* C6: on a decoder-only model, when some target (supplied or generated) does
\* not start with its input, the call fails and never dispatches: with the
\* precondition failure once method and function are resolved. On an
\* encoder-decoder model the precondition failure never occurs.
C6_PrefixPrecondition ==
    /\ (Returned /\ ~Pre.is_encoder_decoder /\ R.status \notin BeforeResolution
        /\ \E i \in 1..Len(R.input_texts.v) :
              ~startswith(R.generated_texts.v[i], R.input_texts.v[i])) =>
          /\ Failed /\ R.dispatch = None /\ R.out = None /\ ~HasEvent("dispatch")
          /\ (R.status \notin {"MissingAttributionMethodError", "UnknownFunctionError"}
                => R.status = "AssertionError")
    /\ (Returned /\ Pre.is_encoder_decoder) => R.status # "AssertionError"
    /\ (Returned /\ R.status = "AssertionError") =>
          \E i \in 1..Len(R.input_texts.v) :
              ~startswith(R.generated_texts.v[i], R.input_texts.v[i])

\* C6's case: two supplied targets, the first starting with its input, the
\* second not.
C6_Witness ==
    /\ Returned /\ ~Pre.is_encoder_decoder /\ R.status = "AssertionError"
    /\ A.input_texts = ListArg(<<Ta, Tab>>) /\ A.generated_texts = ListArg(<<Tab, Ta>>)

\* The configurations the code answers with a batch size of 1 (lines 271-285),
\* in terms of the call's arguments and the method it used.
ForcedToOne ==
    \/ ~Pre.is_encoder_decoder /\ Len(A.input_texts.v) > 1 /\ TargetsSupplied
    \/ ~Pre.is_encoder_decoder /\ Len(A.input_texts.v) > 1
         /\ (~IsNone(A.attr_pos_start) \/ ~IsNone(A.attr_pos_end))
    \/ R.used_method = Some("lime")

\* C7: the batch size handed to the attribution method is 1 when the model
\* is decoder-only with more than one example and targets were supplied or
\* an attribution position is set, or when the method used is "lime"; in
\* every other case it is the requested batch size (none included). The
\* correction never makes the call fail: a dispatched call fails only if the
\* attribution method itself does.
C7_EffectiveBatchSize ==
    /\ (Returned /\ ~IsNone(R.dispatch)) =>
          /\ The(R.dispatch).batch_size = (IF ForcedToOne THEN Some(1) ELSE A.batch_size)
          /\ (last.e.fault # "dispatch" => R.status = "ok")
    /\ (Returned /\ R.status = "ok") => ~IsNone(R.dispatch)

\* C7's case: a decoder-only model, two examples with targets, batch size 2
\* requested, batch size 1 used, and the call succeeds.
C7_Witness ==
    /\ Returned /\ R.status = "ok" /\ ~Pre.is_encoder_decoder
    /\ Len(A.input_texts.v) = 2 /\ TargetsSupplied
    /\ R.used_method # Some("lime")
    /\ A.batch_size = Some(2) /\ The(R.dispatch).batch_size = Some(1)

\* C8: on a decoder-only model a call with attribute_target and/or
\* generate_from_target_prefix set ends exactly as the same call with both
\* flags off: it dispatches with attribute_target off, uses supplied targets
\* as full targets without generating, and records both flags as off.
C8_ArchFlagsDisabled ==
    (Returned /\ ~Pre.is_encoder_decoder
     /\ (A.attribute_target \/ A.generate_from_target_prefix)) =>
        LET off == [A EXCEPT !.attribute_target = FALSE,
                             !.generate_from_target_prefix = FALSE]
            r0 == attribute(Pre, off, last.e)
        IN /\ R.status = r0.status /\ R.dispatch = r0.dispatch /\ R.out = r0.out
           /\ R.generate_calls = r0.generate_calls
           /\ (~IsNone(R.dispatch) => The(R.dispatch).attribute_target = FALSE)
           /\ (TargetsSupplied => /\ ~HasEvent("generate")
                                  /\ ~IsNone(R.dispatch) =>
                                        The(R.dispatch).generated_texts = A.generated_texts.v)
           /\ (~IsNone(R.out) => /\ The(R.out).info.attribute_target = FALSE
                                 /\ The(R.out).info.generate_from_target_prefix = FALSE)
           /\ R.generation_args = Frame(Pre, A).generation_args
           /\ default_generation_args = Pre.default_generation_args

\* C8's case: both flags set on a decoder-only model, targets supplied, success.
C8_Witness ==
    /\ Returned /\ ~Pre.is_encoder_decoder
    /\ A.attribute_target /\ A.generate_from_target_prefix /\ TargetsSupplied
    /\ R.status = "ok" /\ HasEvent("warning")
    /\ The(R.out).info.generate_from_target_prefix = FALSE

\* C9: a successful call whose targets are supplied as full targets records
\* constrained_decoding = True, generated_texts = the supplied targets in
\* their order as a list, and input_texts = the inputs as a list.
C9_ConstrainedDecodingInfo ==
    (Returned /\ R.status = "ok" /\ TargetsSupplied /\ ~R.generate_from_target_prefix) =>
        LET info == The(R.out).info
        IN /\ info.constrained_decoding = TRUE
           /\ info.generated_texts = ListArg(A.generated_texts.v)
           /\ info.input_texts = ListArg(A.input_texts.v)
           /\ ~HasEvent("generate")

\* C9's case: one input and one target, both given as single strings.
C9_Witness ==
    /\ Returned /\ R.status = "ok"
    /\ A.input_texts = StrArg(Ta) /\ A.generated_texts = StrArg(Tab)
    /\ The(R.out).info.generated_texts = ListArg(<<Tab>>)
    /\ The(R.out).info.constrained_decoding

\* C10: a call with no method name on a model with no bound method fails,
\* loads and dispatches to no method and returns nothing: with
\* MissingAttributionMethodError once it gets as far as resolving the
\* method. With a bound default and no method name, the bound default is the
\* method used, and it stays bound.
C10_MissingMethod ==
    /\ (Returned /\ IsNone(A.method) /\ IsNone(Pre.attribution_method)) =>
          /\ Failed /\ R.dispatch = None /\ R.out = None
          /\ ~HasEvent("load") /\ ~HasEvent("dispatch")
          /\ attribution_method = None
          /\ (R.status \notin BeforeResolution => R.status = "MissingAttributionMethodError")
    /\ (Returned /\ IsNone(A.method) /\ ~IsNone(Pre.attribution_method)) =>
          /\ R.status # "MissingAttributionMethodError"
          /\ ~HasEvent("load") /\ ~HasEvent("unhook")
          /\ attribution_method = Pre.attribution_method
          /\ (~IsNone(R.dispatch) => The(R.dispatch).method = The(Pre.attribution_method))

\* C10's case: after setup() on a model with no wrapped network (the device
\* is set, no method is bound), a call with no method name.
C10_Witness ==
    /\ Returned /\ ~Pre.has_model /\ ~IsNone(Pre.device)
    /\ IsNone(A.method) /\ IsNone(Pre.attribution_method)
    /\ R.status = "MissingAttributionMethodError"


\* C11 as stated: a call with a method name and override_default_attribution
\* off leaves the bound method as it was before the call, whether a default
\* was bound or none was; with the override on, the named method is bound.
C11_OneOffLeavesBinding ==
    (Returned /\ ~IsNone(A.method) /\ R.status \notin BeforeResolution) =>
        /\ (~A.override_default_attribution => attribution_method = Pre.attribution_method)
        /\ (A.override_default_attribution => attribution_method = A.method)

\* C11, amended: in a call with a method name that gets as far as resolving
\* the method, the named method is the one used; with the override off and
\* a default bound, the bound default is the same after the call as before;
\* with the override off and none bound, the named method becomes the bound
\* default (lines 130-133); with the override on it becomes the bound
\* default in either case. A call that fails earlier changes no binding.
C11_OneOffUnlessNoneBound ==
    /\ (Returned /\ ~IsNone(A.method) /\ R.status \notin BeforeResolution) =>
          /\ R.used_method = A.method
          /\ (~IsNone(R.dispatch) => The(R.dispatch).method = The(A.method))
          /\ (~A.override_default_attribution /\ ~IsNone(Pre.attribution_method)
                => attribution_method = Pre.attribution_method)
          /\ (~A.override_default_attribution /\ IsNone(Pre.attribution_method)
                => attribution_method = A.method)
          /\ (A.override_default_attribution => attribution_method = A.method)
    /\ (Returned /\ R.status \in BeforeResolution) =>
          attribution_method = Pre.attribution_method

\* C11's case: "lime" for one attribution on a model bound to "saliency".
C11_Witness ==
    /\ Returned /\ R.status = "ok"
    /\ A.method = Some("lime") /\ ~A.override_default_attribution
    /\ Pre.attribution_method = Some("saliency")
    /\ attribution_method = Some("saliency")
    /\ The(R.dispatch).method = "lime"


\* Helpers of C12: whether the call needs generation, the positions of the
\* events of a kind in the call's log, and the same call made with an empty
\* generation_args.
NeedsGeneration == ~TargetsSupplied \/ (Pre.is_encoder_decoder /\ A.generate_from_target_prefix)
ReachedGeneration == R.status \notin BeforeNormalize \cup {"LengthMismatchError"}
EventsAt(kinds) == {i \in 1..Len(R.ev) : R.ev[i][1] \in kinds}
SameCallNoGenerationArgs ==
    attribute(Pre, [A EXCEPT !.generation_args = Some({})], last.e)

\* C12: within one attribute() call generate is invoked exactly once when no
\* targets were supplied or, on an encoder-decoder model, when the targets
\* are decoding prefixes, and then the encoded prefix is passed as
\* decoder_input_ids; otherwise generate is never invoked, the supplied
\* targets reach the attribution unchanged, and supplied generation
\* arguments only produce a warning. Generation comes before the resolution
\* of the method and before the dispatch.
C12_GenerationOnce ==
    /\ (Returned /\ ~ReachedGeneration) => R.generate_calls = <<>>
    /\ (Returned /\ ReachedGeneration /\ NeedsGeneration) =>
          /\ Len(R.generate_calls) = 1
          /\ Cardinality(EventsAt({"generate"})) = 1
          /\ (TargetsSupplied =>
                /\ R.generate_calls[1].decoder_input_ids =
                      Some(format_input_texts(A.input_texts, A.generated_texts).ref.v)
                /\ Get(R.generate_calls[1].kwargs, "decoder_input_ids") =
                      R.generate_calls[1].decoder_input_ids)
          /\ (~TargetsSupplied =>
                R.generate_calls[1].kwargs = Frame(Pre, A).generation_args)
          /\ (~IsNone(A.generation_args) =>
                The(A.generation_args) \subseteq R.generate_calls[1].kwargs)
          /\ \A i \in EventsAt({"generate"}) :
                \A j \in EventsAt({"unhook", "load", "dispatch"}) : i < j
    /\ (Returned /\ ReachedGeneration /\ ~NeedsGeneration) =>
          /\ R.generate_calls = <<>>
          /\ EventsAt({"generate", "encode"}) = {}
          /\ R.generated_texts = format_input_texts(A.input_texts, A.generated_texts).ref
          /\ (~IsNone(R.dispatch) =>
                The(R.dispatch).generated_texts = R.generated_texts.v)
          /\ ((~IsNone(A.generation_args) /\ The(A.generation_args) # {}) =>
                /\ <<"warning", "generation_args">> \in {R.ev[i] : i \in 1..Len(R.ev)}
                /\ R.status # "GenerationError"
                /\ R.status = SameCallNoGenerationArgs.status
                /\ R.dispatch = SameCallNoGenerationArgs.dispatch)

\* C12's case: a prefix call on an encoder-decoder model generated once from
\* the supplied targets and went on to dispatch.
C12_Witness ==
    /\ Returned /\ R.status = "ok"
    /\ Pre.is_encoder_decoder /\ A.generate_from_target_prefix /\ TargetsSupplied
    /\ Len(R.generate_calls) = 1
    /\ R.generate_calls[1].decoder_input_ids = Some(<<Tab>>)
    /\ EventsAt({"generate"}) # {} /\ EventsAt({"dispatch"}) # {}


\* Helpers of C13: a setup() or attribute() call has returned; the positions
\* of its load and unhook events.
Called == pc = "returned" /\ last.op \in {"setup", "attribute"}
Loads == {j \in 1..Len(last.res.ev) : last.res.ev[j][1] = "load"}
UnhooksOf(name) == {i \in 1..Len(last.res.ev) : last.res.ev[i] = <<"unhook", name>>}

\* C13: over any sequence of setup() and attribute() calls, a method is
\* loaded only after unhook() was called on the method bound before, so no
\* method is ever loaded onto a model that is still hooked by another one,
\* and a bound method that is replaced has been unhooked first.
C13_UnhookBeforeLoad ==
    /\ is_hooked => ~IsNone(attribution_method)
    /\ Called =>
          /\ \A j \in Loads :
                /\ ~HookedAfter(last.pre.is_hooked, SubSeq(last.res.ev, 1, j - 1))
                /\ ~IsNone(last.pre.attribution_method) =>
                      \E i \in UnhooksOf(The(last.pre.attribution_method)) : i < j
          /\ attribution_method # last.pre.attribution_method =>
                /\ Loads # {}
                /\ \A j \in Loads : attribution_method = Some(last.res.ev[j][2])
          /\ Cardinality(Loads) <= 1

\* C13's case: a hooked model bound to "saliency" was rebound to "lime".
C13_Witness ==
    /\ Called
    /\ last.pre.is_hooked /\ last.pre.attribution_method = Some("saliency")
    /\ attribution_method = Some("lime") /\ is_hooked
    /\ UnhooksOf("saliency") # {} /\ Loads # {}


\* C14: across any sequence of attribute() calls nothing is carried from one
\* call to the next through generation_args: the default dict stays empty,
\* and a call that passes no generation_args and does not itself generate
\* from a target prefix uses and records empty generation arguments.
C14_NoCarriedGenerationArgs ==
    /\ default_generation_args = {}
    /\ (Returned /\ IsNone(A.generation_args) /\ ~R.generate_from_target_prefix) =>
          /\ R.generation_args = {}
          /\ \A i \in 1..Len(R.generate_calls) :
                /\ R.generate_calls[i].kwargs = {}
                /\ R.generate_calls[i].decoder_input_ids = None
          /\ (~IsNone(R.out) => The(R.out).info.generation_args = {})


\* Helpers of C15: an assignment to the property called name has returned;
\* the value that was assigned.
Assigned(name) ==
    pc = "returned" /\ last.op = "setattr" /\ last.res.ev = <<<<"setattr", name>>>>
AssignedValue == last.a.attributed_fn.id

\* C15: assigning default_attributed_fn_id a registered key makes that key
\* the model's default, which later attribute() calls with no attributed_fn
\* resolve to; assigning an unregistered key fails with the unknown-function
\* error and leaves the default as it was. The default starts as
\* "probability".
C15_AssignDefaultFn ==
    /\ (Assigned("default_attributed_fn_id") /\ AssignedValue \in StepScoresMap) =>
          /\ last.res.status = "ok"
          /\ default_attributed_fn_id = AssignedValue
    /\ (Assigned("default_attributed_fn_id") /\ AssignedValue \notin StepScoresMap) =>
          /\ last.res.status = "UnknownFunctionError"
          /\ default_attributed_fn_id = last.pre.default_attributed_fn_id
    /\ (Returned /\ A.attributed_fn = NoFn /\ ~IsNone(R.dispatch)) =>
          The(R.dispatch).attributed_fn = StepFn(Pre.default_attributed_fn_id)

====
